---- MODULE Spec2Model ----
(***************************************************************************)
(* Model of the OpenSenseMap integration's upload coordinator              *)
(* (custom_components/opensensemap): the config entry (data + options),    *)
(* the Home Assistant state machine the coordinator reads, the             *)
(* coordinator's status fields, and the upload cycles (_async_update_data) *)
(* run on behalf of the periodic timer and of manual refresh requests.     *)
(*                                                                         *)
(* Conventions.  An optional value (Python None / value) is a sequence of  *)
(* length 0 or 1.  A Python string built by formatting is a sequence of    *)
(* string chunks, so that "" is << >> and concatenation is \o.             *)
(***************************************************************************)
EXTENDS Integers, Sequences, FiniteSets, TLC

\* ------------------------------------------------------------------ bounds
\* Wall-clock horizon of the model, in seconds.
MaxTime == 20
\* Seconds by which one Tick advances the clock.
ClockStep == 20
\* Cycles (_async_update_data runs) started over a behaviour.
MaxCycles == 2
\* Accepted options-flow submissions over a behaviour.
MaxOptionUpdates == 1
\* Changes of entity states over a behaviour.
MaxStateChanges == 1

\* ------------------------------------------------------------- const.py
DEFAULT_UPDATE_INTERVAL == 300
HTTP_TIMEOUT == 30

API_URL(box_id) == <<"https://api.opensensemap.org/boxes/", box_id, "/data">>
SOFTWARE_TYPE == "HomeAssistant-OpenSenseMap"

CONF_BOX_ID == "box_id"
CONF_ACCESS_TOKEN == "access_token"
CONF_UPDATE_INTERVAL == "update_interval"
CONF_DEBUG_MODE == "debug_mode"

MEASUREMENT_PM == "pm"
MEASUREMENT_TEMPERATURE == "temperature"
MEASUREMENT_HUMIDITY == "humidity"
MEASUREMENT_PRESSURE == "pressure"

SENSOR_CONFIGS ==
    << [sensor_id_key |-> "sensor_id_pm25", entity_key |-> "entity_pm25",
        label |-> "PM2.5", measurement_type |-> MEASUREMENT_PM],
       [sensor_id_key |-> "sensor_id_pm10", entity_key |-> "entity_pm10",
        label |-> "PM10", measurement_type |-> MEASUREMENT_PM],
       [sensor_id_key |-> "sensor_id_temperature", entity_key |-> "entity_temperature",
        label |-> "Temperature", measurement_type |-> MEASUREMENT_TEMPERATURE],
       [sensor_id_key |-> "sensor_id_humidity", entity_key |-> "entity_humidity",
        label |-> "Humidity", measurement_type |-> MEASUREMENT_HUMIDITY],
       [sensor_id_key |-> "sensor_id_pressure", entity_key |-> "entity_pressure",
        label |-> "Pressure", measurement_type |-> MEASUREMENT_PRESSURE] >>

\* ------------------------------------------------------- optional values
None == << >>
Some(v) == << v >>
\* Python truthiness of an optional string: neither None nor "".
Truthy(opt) == opt # None /\ opt[1] # << >>

\* A dict lookup d.get(key, default); a dict is a function on its key set.
DictGet(d, key, default) == IF key \in DOMAIN d THEN d[key] ELSE default
\* options.get(key, data.get(key, default)): the options shadow the data.
EntryGet(options, data, key, default) ==
    DictGet(options, key, DictGet(data, key, default))

\* --------------------------------------------- Home Assistant state machine
\* What hass.states.get(entity_id) returns: exists = FALSE is Python None.
NoState == [exists |-> FALSE, state |-> "", unit |-> ""]
MkState(s, u) == [exists |-> TRUE, state |-> s, unit |-> u]

\* The entities of the model and the states each may take.
Entities == {"sensor.temp", "sensor.hum"}
EntityStates(e) ==
    IF e = "sensor.temp"
    THEN {NoState, MkState("unknown", ""), MkState("abc", ""), MkState("21.5", "°C")}
    ELSE {MkState("unavailable", ""), MkState("0.45", "%")}

\* Whether the coordinator object built by __init__ stays in use when the
\* entry's options are updated.  The integration's setup code is not among
\* the sources; the specification has the configuration updated "at any
\* time" and re-read by the coordinator "each cycle", so the coordinator
\* outlives an update.
CoordinatorOutlivesUpdate == TRUE

\* When the integration is set up, both sensors report a reading or
\* neither is ready yet.
InitialStates ==
    { ("sensor.temp" :> MkState("21.5", "°C")) @@ ("sensor.hum" :> MkState("0.45", "%")),
      ("sensor.temp" :> NoState) @@ ("sensor.hum" :> MkState("unavailable", "")) }

\* A number is the exact rational n/d, d > 0.
Num(n, d) == [n |-> n, d |-> d]

\* float(str): the numeric literals of the model; any other string raises
\* ValueError.
FloatLiterals == {"21.5", "72", "0.45"}
ParseFloat(s) ==
    CASE s = "21.5" -> Num(215, 10)
      [] s = "72"   -> Num(72, 1)
      [] s = "0.45" -> Num(45, 100)

NumLeq(a, b) == a.n * b.d <= b.n * a.d
NumMul(a, k, den) == Num(a.n * k, a.d * den)

ConvertValueDegreeSignOnly(measurement_type, value, unit) ==
    CASE measurement_type = MEASUREMENT_TEMPERATURE ->
            IF unit = "°F"
            THEN Num((value.n - 32 * value.d) * 5, value.d * 9)
            ELSE value
      [] measurement_type = MEASUREMENT_PRESSURE ->
            IF unit \in {"hPa", "mbar", ""} THEN NumMul(value, 100, 1)
            ELSE IF unit = "inHg" THEN NumMul(value, 338639, 100)
            ELSE IF unit = "psi" THEN NumMul(value, 689476, 100)
            ELSE value
      [] measurement_type = MEASUREMENT_HUMIDITY ->
            IF ~NumLeq(value, Num(1, 1)) /\ NumLeq(value, Num(100, 1)) THEN value
            ELSE IF NumLeq(value, Num(1, 1)) THEN NumMul(value, 100, 1)
            ELSE value
      [] OTHER -> value
\* OpenSenseMapCoordinator._convert_value
ConvertValue(measurement_type, value, unit) ==
    CASE measurement_type = MEASUREMENT_TEMPERATURE ->
            IF unit \in {"°F", "F"}
            THEN Num((value.n - 32 * value.d) * 5, value.d * 9)
            ELSE value
      [] measurement_type = MEASUREMENT_PRESSURE ->
            IF unit \in {"hPa", "mbar", ""} THEN NumMul(value, 100, 1)
            ELSE IF unit = "inHg" THEN NumMul(value, 338639, 100)
            ELSE IF unit = "psi" THEN NumMul(value, 689476, 100)
            ELSE value
      [] measurement_type = MEASUREMENT_HUMIDITY ->
            IF ~NumLeq(value, Num(1, 1)) /\ NumLeq(value, Num(100, 1)) THEN value
            ELSE IF NumLeq(value, Num(1, 1)) THEN NumMul(value, 100, 1)
            ELSE value
      [] OTHER -> value

\* Decimal digits of a natural number, as a sequence of one-character chunks.
DigitChar(k) ==
    CASE k = 0 -> "0" [] k = 1 -> "1" [] k = 2 -> "2" [] k = 3 -> "3"
      [] k = 4 -> "4" [] k = 5 -> "5" [] k = 6 -> "6" [] k = 7 -> "7"
      [] k = 8 -> "8" [] k = 9 -> "9"
RECURSIVE NatStr(_)
NatStr(k) == IF k < 10 THEN << DigitChar(k) >>
             ELSE NatStr(k \div 10) \o << DigitChar(k % 10) >>

\* f"{value:.2f}": the value rounded to hundredths (ties to even), with
\* exactly two decimals.
Format2f(value) ==
    LET a == IF value.n < 0 THEN 0 - value.n ELSE value.n
        f == (a % value.d) * 100
        q == (a \div value.d) * 100 + (f \div value.d)
        r == f % value.d
        h == IF 2 * r > value.d \/ (2 * r = value.d /\ q % 2 = 1) THEN q + 1 ELSE q
    IN  (IF value.n < 0 THEN << "-" >> ELSE << >>)
        \o NatStr(h \div 100) \o << "." >>
        \o << DigitChar((h \div 10) % 10), DigitChar(h % 10) >>

\* ------------------------------------------------------------ the readers
\* The (sensor_id, entity_id) a cycle reads for SENSOR_CONFIGS[i]:
\* options.get(key, config_data.get(key)); a missing key gives None,
\* modelled as the (equally falsy) empty string.
SensorId(options, data, i) ==
    EntryGet(options, data, SENSOR_CONFIGS[i].sensor_id_key, "")
EntityId(options, data, i) ==
    EntryGet(options, data, SENSOR_CONFIGS[i].entity_key, "")

StateOf(states, entity_id) ==
    IF entity_id \in DOMAIN states THEN states[entity_id] ELSE NoState

IsUnavailableOnlyMissing(st) == ~st.exists \/ st.state = "unavailable"
IsUnavailable(st) == ~st.exists \/ st.state \in {"unknown", "unavailable"}

\* OpenSenseMapCoordinator._all_sensors_available: the list of unavailable
\* entity ids, in SENSOR_CONFIGS order (all_available is "the list is empty").
RECURSIVE UnavailableUpTo(_, _, _, _)
UnavailableUpTo(options, data, states, i) ==
    IF i = 0 THEN << >>
    ELSE LET rest == UnavailableUpTo(options, data, states, i - 1)
             sensor_id == SensorId(options, data, i)
             entity_id == EntityId(options, data, i)
         IN  IF sensor_id = "" \/ entity_id = "" THEN rest
             ELSE IF IsUnavailable(StateOf(states, entity_id))
                  THEN Append(rest, entity_id)
                  ELSE rest
AllSensorsAvailableUnchecked(options, data, states) == << >>
AllSensorsAvailable(options, data, states) ==
    UnavailableUpTo(options, data, states, Len(SENSOR_CONFIGS))

\* ', '.join(list)
RECURSIVE JoinComma(_)
JoinComma(list) ==
    IF list = << >> THEN << >>
    ELSE IF Len(list) = 1 THEN << list[1] >>
    ELSE << list[1], ", " >> \o JoinComma(Tail(list))

\* OpenSenseMapCoordinator._collect_sensor_data: the dict
\* {sensor_id: "x.xx"}; a later SENSOR_CONFIGS entry overwrites an earlier
\* one with the same sensor id.
RECURSIVE CollectUpTo(_, _, _, _)
CollectUpTo(options, data, states, i) ==
    IF i = 0 THEN << >>
    ELSE LET rest == CollectUpTo(options, data, states, i - 1)
             sensor_id == SensorId(options, data, i)
             entity_id == EntityId(options, data, i)
             st == StateOf(states, entity_id)
         IN  IF sensor_id = "" \/ entity_id = "" THEN rest
             ELSE IF IsUnavailable(st) THEN rest
             ELSE IF st.state \notin FloatLiterals THEN rest
             ELSE (sensor_id :>
                     Format2f(ConvertValue(SENSOR_CONFIGS[i].measurement_type,
                                           ParseFloat(st.state), st.unit)))
                  @@ rest
\* The collection as it would be were the try statement around the loop:
\* it ends at the first state that is not a number.
CollectSensorDataEndsAtBadValue(options, data, states) ==
    LET bad == {i \in 1..Len(SENSOR_CONFIGS) :
                  /\ SensorId(options, data, i) # "" /\ EntityId(options, data, i) # ""
                  /\ ~IsUnavailable(StateOf(states, EntityId(options, data, i)))
                  /\ StateOf(states, EntityId(options, data, i)).state \notin FloatLiterals}
    IN  IF bad = {} THEN CollectUpTo(options, data, states, Len(SENSOR_CONFIGS))
        ELSE CollectUpTo(options, data, states,
                         (CHOOSE i \in bad : \A j \in bad : i <= j) - 1)
CollectSensorData(options, data, states) ==
    CollectUpTo(options, data, states, Len(SENSOR_CONFIGS))

\* ------------------------------------------------------------------ state
VARIABLES
    entry_data,         \* ConfigEntry.data (written once, by the config flow)
    entry_options,      \* ConfigEntry.options (replaced by each options flow)
    hass_states,        \* hass.states: entity id -> state
    box_id,             \* coordinator._box_id
    access_token,       \* coordinator._access_token ("" is None)
    update_interval,    \* coordinator.update_interval, in seconds
    session,            \* coordinator._session: "none" or "open"
    last_upload,        \* coordinator.last_upload: optional time
    last_error,         \* coordinator.last_error: optional string
    upload_count,       \* coordinator.upload_count
    last_request_data,  \* coordinator.last_request_data: optional snapshot
    now,                \* the wall clock, in seconds
    calls,              \* per caller: the _async_update_data run in flight
    last_cycle,         \* what the most recently finished cycle did
    started,            \* cycles started so far
    option_updates,     \* options flows completed so far
    state_changes,      \* entity state changes so far
    open_sessions,      \* aiohttp.ClientSession objects created and not closed
    shutdown,           \* async_shutdown: "no", "closing" (in close()), "done"
    flow,               \* the config flow: its step, _data, errors, last input
    probe               \* a reader applied on its own: its arguments and result

vars == << entry_data, entry_options, hass_states, box_id, access_token,
           update_interval, session, last_upload, last_error, upload_count,
           last_request_data, now, calls, last_cycle, started, option_updates,
           state_changes, open_sessions, shutdown, flow, probe >>

config_vars == << entry_data, entry_options >>
cached_vars == << box_id, access_token, update_interval >>
status_vars == << last_upload, last_error, upload_count >>
\* What no step of a cycle touches.
aside_vars == << shutdown, flow, probe >>

\* Who runs _async_update_data: the coordinator's periodic timer and a
\* manual refresh request.  The method holds no lock or busy flag.
Callers == {"timer", "manual"}

\* ------------------------------------------------------------ input sets
BoxId == "5f0000000000000000000001"
TempSensorId == "5f00000000000000000000a3"
HumSensorId == "5f00000000000000000000a4"
Token == "s3cret"
Intervals == {120}

PairOf(i) ==
    IF i = 3
    THEN ("sensor_id_temperature" :> TempSensorId) @@ ("entity_temperature" :> "sensor.temp")
    ELSE ("sensor_id_humidity" :> HumSensorId) @@ ("entity_humidity" :> "sensor.hum")

\* The entries the config flow can have created (box step, sensors step,
\* options step): a box id, an optional token, complete pairs only.
InitialData ==
    { (CONF_BOX_ID :> BoxId)
        @@ (IF tok THEN (CONF_ACCESS_TOKEN :> Token) ELSE << >>)
        @@ PairOf(3)
        @@ (IF hum THEN PairOf(4) ELSE << >>)
        @@ (CONF_UPDATE_INTERVAL :> 60) @@ (CONF_DEBUG_MODE :> FALSE)
      : tok \in BOOLEAN, hum \in BOOLEAN }

\* Other texts a user may type into an id field: the box id with blanks
\* around it, a short hex string, and 24 characters that are not all hex
\* digits.
PaddedBoxId == " 5f0000000000000000000001 "
ShortId == "5f00"
NonHexId == "temperature-sensor-id-01"

\* str.strip()
Strip(s) ==
    CASE s = PaddedBoxId -> BoxId
      [] s = "  " -> ""
      [] OTHER -> s

\* What the id patterns look at in a string: its length and whether all
\* its characters are hexadecimal digits.
TextOf(s) ==
    CASE s \in {BoxId, TempSensorId, HumSensorId} -> [len |-> 24, hex |-> TRUE]
      [] s = PaddedBoxId -> [len |-> 26, hex |-> FALSE]
      [] s = ShortId -> [len |-> 4, hex |-> TRUE]
      [] s = NonHexId -> [len |-> 24, hex |-> FALSE]
      [] s = "  " -> [len |-> 2, hex |-> FALSE]
      [] s = "" -> [len |-> 0, hex |-> TRUE]

\* re.compile(r"^[a-fA-F0-9]{24}$").match(s)
BOX_ID_PATTERN(s) == TextOf(s).hex /\ TextOf(s).len = 24
SENSOR_ID_PATTERN(s) == TextOf(s).hex /\ TextOf(s).len = 24
ValidateBoxId(s) == BOX_ID_PATTERN(s)
ValidateSensorId(s) == SENSOR_ID_PATTERN(s)

\* What a user submits for one slot: nothing, a complete pair, a sensor id
\* alone, an entity alone, or an entity with an id that is not hexadecimal.
SlotInput(i, choice) ==
    CASE choice = "both" -> PairOf(i)
      [] choice = "sensor_only" ->
            (SENSOR_CONFIGS[i].sensor_id_key :> PairOf(i)[SENSOR_CONFIGS[i].sensor_id_key])
      [] choice = "entity_only" ->
            (SENSOR_CONFIGS[i].entity_key :> PairOf(i)[SENSOR_CONFIGS[i].entity_key])
      [] choice = "bad_id" ->
            (SENSOR_CONFIGS[i].sensor_id_key :> NonHexId)
            @@ (SENSOR_CONFIGS[i].entity_key :> PairOf(i)[SENSOR_CONFIGS[i].entity_key])
      [] OTHER -> << >>
\* What a user submits to the options flow: per slot nothing, a complete
\* pair or a sensor id alone; a new interval; debug mode switched on.
OptionInputs ==
    { SlotInput(3, c3) @@ SlotInput(4, c4)
        @@ (CONF_UPDATE_INTERVAL :> iv) @@ (CONF_DEBUG_MODE :> TRUE)
      : c3 \in {"none", "both"}, c4 \in {"none", "sensor_only"},
        iv \in Intervals }

\* Responses of the remote API, and the failures of a request.
HttpStatuses == {200, 201, 204, 401}
StatusStr(s) ==
    CASE s = 200 -> "200" [] s = 201 -> "201" [] s = 204 -> "204" [] s = 401 -> "401"
Bodies == { << >>, << "Unauthorized" >> }
\* str(err) of an aiohttp.ClientError, and of any other exception.
ClientErrors == { << >>, << "Cannot connect to host" >> }
Exceptions == { << >>, << "Session is closed" >> }
\* str(err) of the RuntimeError aiohttp raises for a request on a closed
\* session.
SessionClosedError == << "Session is closed" >>

\* ------------------------------------------------- coordinator, pure parts
\* OpenSenseMapCoordinator.debug_mode: read from the entry at each use.
DebugMode(options, data) == EntryGet(options, data, CONF_DEBUG_MODE, FALSE)

\* The interval __init__ hands to DataUpdateCoordinator.
ConfiguredInterval(options, data) ==
    EntryGet(options, data, CONF_UPDATE_INTERVAL, DEFAULT_UPDATE_INTERVAL)

\* OpenSenseMapCoordinator.next_upload
NextUpload(upload, interval) ==
    IF upload # None THEN Some(upload[1] + interval) ELSE None

\* The message of a skipped cycle.
GateError(unavailable) == << "Sensors unavailable: " >> \o JoinComma(unavailable)

\* The headers of the POST request.
BuildHeaders(token) ==
    ("Content-Type" :> << "application/json; charset=utf-8" >>)
    @@ ("User-Agent" :> << SOFTWARE_TYPE, "/1.0.0" >>)
    @@ (IF token # "" THEN ("Authorization" :> << "Bearer ", token >>) ELSE << >>)

\* The debug snapshot of a request: the Authorization value is replaced.
RequestSnapshotUnredacted(url, headers, payload) ==
    [url |-> url, headers |-> headers, payload |-> payload]
RequestSnapshot(url, headers, payload) ==
    [url |-> url,
     headers |-> [k \in DOMAIN headers |->
                    IF k # "Authorization" THEN headers[k] ELSE << "***" >>],
     payload |-> payload]

\* What _push_sensor_data returns for each way the request can end.
PushResult(success, response) == [success |-> success, response |-> response]
NoOutcome == [kind |-> "none", status |-> 0, body |-> << >>, err |-> << >>]
StatusOutcome(status, body) ==
    [kind |-> "status", status |-> status, body |-> body, err |-> << >>]
TimeoutOutcome == [kind |-> "timeout", status |-> 0, body |-> << >>, err |-> << >>]
ClientErrorOutcome(err) ==
    [kind |-> "client_error", status |-> 0, body |-> << >>, err |-> err]
ExceptionOutcome(err) ==
    [kind |-> "exception", status |-> 0, body |-> << >>, err |-> err]

\* _push_sensor_data returns (True, None) before building any request when
\* nothing was collected.
PushNeverShortCircuits(sensor_data) == FALSE
PushShortCircuits(sensor_data) == DOMAIN sensor_data = {}

\* asyncio.timeout(HTTP_TIMEOUT): when a request sent at time `sent` is
\* abandoned.
Deadline(sent) == sent + HTTP_TIMEOUT

PushOutcomeAny2xx(net) ==
    CASE net.kind = "status" ->
            IF net.status \in 200..299
            THEN PushResult(TRUE, None)
            ELSE PushResult(FALSE,
                    Some(<< "HTTP ", StatusStr(net.status), ": " >> \o net.body))
      [] net.kind = "timeout" -> PushResult(FALSE, Some(<< "Request timeout" >>))
      [] net.kind = "client_error" -> PushResult(FALSE, Some(net.err))
PushOutcome(net) ==
    CASE net.kind = "status" ->
            IF net.status \in {200, 201}
            THEN PushResult(TRUE, None)
            ELSE PushResult(FALSE,
                    Some(<< "HTTP ", StatusStr(net.status), ": " >> \o net.body))
      [] net.kind = "timeout" -> PushResult(FALSE, Some(<< "Request timeout" >>))
      [] net.kind = "client_error" -> PushResult(FALSE, Some(net.err))

\* The status fields (last_upload, upload_count, last_error) after
\* _async_update_data has accounted for the result of the push.
Status(upload, count, error) ==
    [last_upload |-> upload, upload_count |-> count, last_error |-> error]
AccountPushCountsAttempts(result, st, time) ==
    IF result.success
    THEN Status(Some(time), st.upload_count + 1, None)
    ELSE Status(st.last_upload, st.upload_count + 1,
                Some(IF Truthy(result.response) THEN result.response[1]
                     ELSE << "Unknown error" >>))
AccountPush(result, st, time) ==
    IF result.success
    THEN Status(Some(time), st.upload_count + 1, None)
    ELSE Status(st.last_upload, st.upload_count,
                Some(IF Truthy(result.response) THEN result.response[1]
                     ELSE << "Unknown error" >>))

\* The availability gate's branch of _async_update_data.
AccountSkip(unavailable, st) ==
    Status(st.last_upload, st.upload_count, Some(GateError(unavailable)))

\* The except branch of _async_update_data: the error is recorded and the
\* status is returned (returns = FALSE would be the exception leaving the
\* method).
HandleExceptionReraise(err, st) ==
    [status |-> Status(st.last_upload, st.upload_count, Some(err)),
     returns |-> FALSE]
HandleException(err, st) ==
    [status |-> Status(st.last_upload, st.upload_count, Some(err)),
     returns |-> TRUE]

\* isoformat() of a time.
IsoFormat(time) == << "iso", time >>

\* OpenSenseMapCoordinator._get_status_data
GetStatusData(st, interval, box, debug, request_data) ==
    [last_upload |-> IF st.last_upload # None
                     THEN Some(IsoFormat(st.last_upload[1])) ELSE None,
     last_error |-> st.last_error,
     upload_count |-> st.upload_count,
     next_upload |-> IF NextUpload(st.last_upload, interval) # None
                     THEN Some(IsoFormat(NextUpload(st.last_upload, interval)[1]))
                     ELSE None,
     box_id |-> box,
     last_request |-> IF debug /\ request_data # None THEN request_data ELSE None]

\* ------------------------------------------------------ the status sensor
\* OpenSenseMapStatusSensor.native_value: the tests are Python truth tests
\* (a datetime is always true, a string is true unless empty).
NativeValue(st) ==
    IF Truthy(st.last_error) THEN "error"
    ELSE IF st.last_upload # None THEN "ok"
    ELSE "pending"

\* OpenSenseMapStatusSensor.available
Available(st) == TRUE

\* OpenSenseMapStatusSensor.extra_state_attributes; None is a key the dict
\* does not have.  sensor_box_id is the box id the sensor keeps itself.
ExtraStateAttributes(st, interval, sensor_box_id, debug, request_data) ==
    [box_id |-> sensor_box_id,
     upload_count |-> st.upload_count,
     last_upload |-> IF st.last_upload # None
                     THEN Some(IsoFormat(st.last_upload[1])) ELSE None,
     next_upload |-> IF NextUpload(st.last_upload, interval) # None
                     THEN Some(IsoFormat(NextUpload(st.last_upload, interval)[1]))
                     ELSE None,
     last_error |-> IF Truthy(st.last_error) THEN st.last_error ELSE None,
     last_request |-> IF debug /\ request_data # None THEN request_data ELSE None]

\* ---------------------------------------------------------------- cycles
\* A caller's run of _async_update_data: idle, or suspended in
\* session.post ("post") or in response.text() ("text").
IdleCall ==
    [pc |-> "idle", id |-> 0, pre_count |-> 0, pre_upload |-> None,
     url |-> << >>, headers |-> << >>, payload |-> << >>,
     sent |-> 0, deadline |-> 0, status |-> 0]

NoCycle ==
    [id |-> 0, caller |-> "", outcome |-> "none", returns |-> TRUE,
     pre_count |-> 0, pre_upload |-> None, unavailable |-> << >>,
     collected |-> FALSE, payload |-> << >>, requested |-> FALSE,
     net |-> NoOutcome, result |-> PushResult(TRUE, None), sent |-> 0,
     time |-> 0, data |-> None]

CurrentStatus == Status(last_upload, upload_count, last_error)

\* The config flow before its first step: nothing in _data, no error, no
\* input yet; and no reader applied on its own.
NoFlow == [step |-> "user", data |-> << >>, errors |-> "", input |-> << >>]
NoProbe == [op |-> "none"]

\* OpenSenseMapCoordinator.__init__, on an entry the config flow created
\* with one of the given data, in one of the given state machines.
InitOn(data_set, states_set) ==
    /\ entry_data \in data_set
    /\ entry_options = << >>
    /\ hass_states \in states_set
    /\ box_id = entry_data[CONF_BOX_ID]
    /\ access_token = DictGet(entry_data, CONF_ACCESS_TOKEN, "")
    /\ update_interval = ConfiguredInterval(entry_options, entry_data)
    /\ session = "none"
    /\ last_upload = None
    /\ last_error = None
    /\ upload_count = 0
    /\ last_request_data = None
    /\ now = 0
    /\ calls = [t \in Callers |-> IdleCall]
    /\ last_cycle = NoCycle
    /\ started = 0
    /\ option_updates = 0
    /\ state_changes = 0
    /\ open_sessions = 0
    /\ shutdown = "no"
    /\ flow = [NoFlow EXCEPT !.step = "done", !.data = entry_data]
    /\ probe = NoProbe

Init == InitOn(InitialData, InitialStates)

\* The end of a run of _async_update_data by caller t: the status fields
\* are written and the snapshot is returned (or the exception leaves).  The
\* snapshot shows last_request_data as this step leaves it.
Finish(t, call, outcome, returns, st, detail) ==
    /\ last_upload' = st.last_upload
    /\ upload_count' = st.upload_count
    /\ last_error' = st.last_error
    /\ calls' = [calls EXCEPT ![t] = IdleCall]
    /\ last_cycle' =
         [id |-> call.id, caller |-> t, outcome |-> outcome, returns |-> returns,
          pre_count |-> call.pre_count, pre_upload |-> call.pre_upload,
          unavailable |-> detail.unavailable, collected |-> detail.collected,
          payload |-> call.payload, requested |-> detail.requested,
          net |-> detail.net, result |-> detail.result, sent |-> call.sent,
          time |-> now,
          data |-> IF returns
                   THEN Some(GetStatusData(st, update_interval, box_id,
                               DebugMode(entry_options, entry_data),
                               last_request_data'))
                   ELSE None]

Detail(unavailable, collected, requested, net, result) ==
    [unavailable |-> unavailable, collected |-> collected,
     requested |-> requested, net |-> net, result |-> result]

\* _async_update_data from its first line to its first suspension point:
\* the availability gate, the session, the collection and the request.
\* session_fails: aiohttp.ClientSession() raises err.
AsyncUpdateData(t, session_fails, err) ==
    /\ calls[t].pc = "idle"
    /\ started < MaxCycles
    /\ started' = started + 1
    /\ LET unavailable == AllSensorsAvailable(entry_options, entry_data, hass_states)
           sensor_data == CollectSensorData(entry_options, entry_data, hass_states)
           url == API_URL(box_id)
           headers == BuildHeaders(access_token)
           call == [IdleCall EXCEPT !.id = started + 1,
                                    !.pre_count = upload_count,
                                    !.pre_upload = last_upload]
       IN  IF unavailable # << >>
           THEN /\ ~session_fails
                /\ UNCHANGED << session, open_sessions, last_request_data >>
                /\ Finish(t, call, "skipped", TRUE,
                          AccountSkip(unavailable, CurrentStatus),
                          Detail(unavailable, FALSE, FALSE, NoOutcome,
                                 PushResult(FALSE, None)))
           ELSE IF session = "none" /\ session_fails
           THEN LET h == HandleException(err, CurrentStatus)
                IN  /\ UNCHANGED << session, open_sessions, last_request_data >>
                    /\ Finish(t, call, "exception", h.returns, h.status,
                              Detail(<< >>, FALSE, FALSE, ExceptionOutcome(err),
                                     PushResult(FALSE, None)))
           ELSE /\ ~session_fails
                /\ session' = (IF session = "none" THEN "open" ELSE session)
                /\ open_sessions' =
                     (IF session = "none" THEN open_sessions + 1 ELSE open_sessions)
                /\ IF PushShortCircuits(sensor_data)
                   THEN /\ UNCHANGED last_request_data
                        /\ Finish(t, [call EXCEPT !.payload = sensor_data],
                                  "success", TRUE,
                                  AccountPush(PushResult(TRUE, None), CurrentStatus, now),
                                  Detail(<< >>, TRUE, FALSE, NoOutcome,
                                         PushResult(TRUE, None)))
                   ELSE /\ last_request_data' =
                             IF DebugMode(entry_options, entry_data)
                             THEN Some(RequestSnapshot(url, headers, sensor_data))
                             ELSE last_request_data
                        /\ IF session = "closed"
                           THEN \* session.post on a closed session raises
                                \* RuntimeError before anything is sent
                                LET h == HandleException(SessionClosedError, CurrentStatus)
                                IN  Finish(t, [call EXCEPT !.payload = sensor_data],
                                           "exception", h.returns, h.status,
                                           Detail(<< >>, TRUE, FALSE,
                                                  ExceptionOutcome(SessionClosedError),
                                                  PushResult(FALSE, None)))
                           ELSE /\ calls' = [calls EXCEPT ![t] =
                                     [call EXCEPT !.pc = "post", !.url = url,
                                                  !.headers = headers,
                                                  !.payload = sensor_data,
                                                  !.sent = now,
                                                  !.deadline = Deadline(now)]]
                                /\ UNCHANGED << status_vars, last_cycle >>
    /\ UNCHANGED << config_vars, hass_states, cached_vars, now, option_updates,
                    state_changes, aside_vars >>

\* The push ends with result PushOutcome(net) and _async_update_data
\* accounts for it (lines 118-127).
EndPush(t, net) ==
    LET result == PushOutcome(net)
        st == AccountPush(result, CurrentStatus, now)
    IN  /\ UNCHANGED << config_vars, hass_states, cached_vars, session,
                        open_sessions, last_request_data, now, started,
                        option_updates, state_changes, aside_vars >>
        /\ Finish(t, calls[t], IF result.success THEN "success" ELSE "failed",
                  TRUE, st, Detail(<< >>, TRUE, TRUE, net, result))

\* session.post answers with an HTTP status before the timeout.
PostResponse(t, status) ==
    /\ calls[t].pc = "post"
    /\ now < calls[t].deadline
    /\ IF status \in {200, 201}
       THEN EndPush(t, StatusOutcome(status, << >>))
       ELSE /\ calls' = [calls EXCEPT ![t].pc = "text", ![t].status = status]
            /\ UNCHANGED << config_vars, hass_states, cached_vars, session,
                            open_sessions, status_vars, last_request_data, now,
                            last_cycle, started, option_updates, state_changes,
                            aside_vars >>

\* response.text() delivers the body of a non-200/201 response.
TextResponse(t, body) ==
    /\ calls[t].pc = "text"
    /\ now < calls[t].deadline
    /\ EndPush(t, StatusOutcome(calls[t].status, body))

\* asyncio.timeout(HTTP_TIMEOUT) fires: the request is abandoned.
RequestNeverTimesOut(t) == FALSE /\ UNCHANGED vars
RequestTimeout(t) ==
    /\ calls[t].pc \in {"post", "text"}
    /\ now >= calls[t].deadline
    /\ EndPush(t, TimeoutOutcome)

\* The request fails with an aiohttp.ClientError.
ClientError(t, err) ==
    /\ calls[t].pc \in {"post", "text"}
    /\ now < calls[t].deadline
    /\ EndPush(t, ClientErrorOutcome(err))

\* The request raises any other exception: it leaves _push_sensor_data
\* and reaches the except branch of _async_update_data.
UnexpectedError(t, err) ==
    /\ calls[t].pc \in {"post", "text"}
    /\ now < calls[t].deadline
    /\ UNCHANGED << config_vars, hass_states, cached_vars, session,
                    open_sessions, last_request_data, now, started,
                    option_updates, state_changes, aside_vars >>
    /\ LET h == HandleException(err, CurrentStatus)
       IN  Finish(t, calls[t], "exception", h.returns, h.status,
                  Detail(<< >>, TRUE, TRUE, ExceptionOutcome(err),
                         PushResult(FALSE, None)))

\* ----------------------------------------------------------- environment
\* Time passes: by ClockStep, or less when the deadline of a pending
\* request comes first; past the horizon only up to such a deadline.  A
\* timeout that is due is served before the clock moves on.
Min(S) == CHOOSE x \in S : \A y \in S : x <= y
PendingDeadlines ==
    {calls[t].deadline : t \in {c \in Callers : calls[c].pc # "idle"
                                                /\ calls[c].deadline > now}}
Tick ==
    /\ now < MaxTime \/ PendingDeadlines # {}
    /\ \A t \in Callers : calls[t].pc # "idle" => now < calls[t].deadline
    /\ now' = Min({now + ClockStep} \cup PendingDeadlines)
    /\ UNCHANGED << config_vars, hass_states, cached_vars, session,
                    open_sessions, status_vars, last_request_data, calls,
                    last_cycle, started, option_updates, state_changes,
                    aside_vars >>

\* An entity's state changes in the Home Assistant state machine.
SetState(e, st) ==
    /\ state_changes < MaxStateChanges
    /\ st # hass_states[e]
    /\ hass_states' = [hass_states EXCEPT ![e] = st]
    /\ state_changes' = state_changes + 1
    /\ UNCHANGED << config_vars, cached_vars, session, open_sessions,
                    status_vars, last_request_data, now, calls, last_cycle,
                    started, option_updates, aside_vars >>

\* OpenSenseMapOptionsFlow.async_step_init: the complete pairs of the
\* submission, its interval and its debug flag.
RECURSIVE ValidPairsUpTo(_, _)
ValidPairsUpTo(user_input, i) ==
    IF i = 0 THEN << >>
    ELSE LET rest == ValidPairsUpTo(user_input, i - 1)
             sensor_id == Strip(DictGet(user_input, SENSOR_CONFIGS[i].sensor_id_key, ""))
             entity_id == DictGet(user_input, SENSOR_CONFIGS[i].entity_key, "")
         IN  IF sensor_id # "" /\ entity_id # ""
             THEN (SENSOR_CONFIGS[i].sensor_id_key :> sensor_id)
                  @@ (SENSOR_CONFIGS[i].entity_key :> entity_id) @@ rest
             ELSE rest
OptionsValidData(user_input) ==
    ValidPairsUpTo(user_input, Len(SENSOR_CONFIGS))
    @@ (CONF_UPDATE_INTERVAL :>
          DictGet(user_input, CONF_UPDATE_INTERVAL, DEFAULT_UPDATE_INTERVAL))
    @@ (CONF_DEBUG_MODE :> DictGet(user_input, CONF_DEBUG_MODE, FALSE))
OptionsAccepted(user_input) ==
    DOMAIN ValidPairsUpTo(user_input, Len(SENSOR_CONFIGS)) # {}

\* An accepted submission becomes the entry's options.  The coordinator
\* object stays the one __init__ built (or, were the entry set up again,
\* __init__ runs anew on the updated entry).
OptionsFlowInit(user_input) ==
    /\ flow.step = "done"
    /\ option_updates < MaxOptionUpdates
    /\ IF OptionsAccepted(user_input)
       THEN /\ entry_options' = OptionsValidData(user_input)
            /\ option_updates' = option_updates + 1
            /\ IF CoordinatorOutlivesUpdate
               THEN UNCHANGED << cached_vars, session, open_sessions, status_vars,
                                 last_request_data, calls >>
               ELSE /\ box_id' = entry_data[CONF_BOX_ID]
                    /\ access_token' = DictGet(entry_data, CONF_ACCESS_TOKEN, "")
                    /\ update_interval' = ConfiguredInterval(entry_options', entry_data)
                    /\ session' = "none"
                    /\ UNCHANGED open_sessions
                    /\ last_upload' = None
                    /\ last_error' = None
                    /\ upload_count' = 0
                    /\ last_request_data' = None
                    /\ calls' = [t \in Callers |-> IdleCall]
       ELSE UNCHANGED << entry_options, option_updates, cached_vars,
                         session, open_sessions, status_vars,
                         last_request_data, calls >>
    /\ UNCHANGED << entry_data, hass_states, now, last_cycle, started,
                    state_changes, aside_vars >>

\* The cycles and the passing of time.
CycleNext ==
    \/ \E t \in Callers, f \in BOOLEAN, err \in Exceptions : AsyncUpdateData(t, f, err)
    \/ \E t \in Callers, s \in HttpStatuses : PostResponse(t, s)
    \/ \E t \in Callers, b \in Bodies : TextResponse(t, b)
    \/ \E t \in Callers : RequestTimeout(t)
    \/ \E t \in Callers, err \in ClientErrors : ClientError(t, err)
    \/ \E t \in Callers, err \in Exceptions : UnexpectedError(t, err)
    \/ Tick

\* The cycles in a changing Home Assistant state machine.
SensorNext ==
    \/ CycleNext
    \/ \E e \in Entities : \E st \in EntityStates(e) : SetState(e, st)

Next ==
    \/ SensorNext
    \/ \E u \in OptionInputs : OptionsFlowInit(u)

Spec == Init /\ [][Next]_vars

\* --------------------------------------------------------------- shutdown
\* OpenSenseMapCoordinator.async_shutdown up to its suspension point: with
\* a session, the session is closed and the method waits in close();
\* without one there is nothing to do.
AsyncShutdown ==
    /\ shutdown = "no"
    /\ IF session # "none"
       THEN /\ session' = "closed"
            /\ open_sessions' = open_sessions - 1
            /\ shutdown' = "closing"
       ELSE /\ shutdown' = "done"
            /\ UNCHANGED << session, open_sessions >>
    /\ UNCHANGED << config_vars, hass_states, cached_vars, status_vars,
                    last_request_data, now, calls, last_cycle, started,
                    option_updates, state_changes, flow, probe >>

\* close() returns: async_shutdown drops its reference to the session.
SessionClosed ==
    /\ shutdown = "closing"
    /\ session' = "none"
    /\ shutdown' = "done"
    /\ UNCHANGED << config_vars, hass_states, cached_vars, open_sessions,
                    status_vars, last_request_data, now, calls, last_cycle,
                    started, option_updates, state_changes, flow, probe >>

\* The cycles of a coordinator that is shut down at some point.
ShutdownNext ==
    \/ CycleNext
    \/ AsyncShutdown
    \/ SessionClosed
ShutdownSpec == Init /\ [][ShutdownNext]_vars

\* ------------------------------------------------- the readers on their own
\* _convert_value applied to a measurement type, a value and the unit of
\* the state it came from.
ConvertKinds ==
    {MEASUREMENT_PM, MEASUREMENT_TEMPERATURE, MEASUREMENT_HUMIDITY, MEASUREMENT_PRESSURE}
ConvertValues ==
    { Num(0 - 1, 2), Num(0, 1), Num(1, 200), Num(45, 100), Num(1, 1), Num(3, 2),
      Num(32, 1), Num(45, 1), Num(100, 1), Num(150, 1), Num(212, 1), Num(1013, 1) }
ConvertUnits == {"°C", "°F", "F", "hPa", "mbar", "", "inHg", "psi", "Pa", "%"}
ApplyConvert(measurement_type, value, unit) ==
    /\ probe' = [op |-> "convert", measurement_type |-> measurement_type,
                 value |-> value, unit |-> unit,
                 out |-> ConvertValue(measurement_type, value, unit),
                 text |-> Format2f(ConvertValue(measurement_type, value, unit))]
    /\ UNCHANGED << config_vars, hass_states, cached_vars, session, open_sessions,
                    status_vars, last_request_data, now, calls, last_cycle,
                    started, option_updates, state_changes, shutdown, flow >>

\* _collect_sensor_data applied to the entry and the state machine as they
\* are.
ApplyCollect ==
    /\ probe' = [op |-> "collect",
                 out |-> CollectSensorData(entry_options, entry_data, hass_states)]
    /\ UNCHANGED << config_vars, hass_states, cached_vars, session, open_sessions,
                    status_vars, last_request_data, now, calls, last_cycle,
                    started, option_updates, state_changes, shutdown, flow >>

\* The entries and state machines the readers are applied to: one or two
\* sensors, in every combination of their states.
ReaderData ==
    { (CONF_BOX_ID :> BoxId) @@ PairOf(3) @@ (IF hum THEN PairOf(4) ELSE << >>)
        @@ (CONF_UPDATE_INTERVAL :> 60) @@ (CONF_DEBUG_MODE :> FALSE)
      : hum \in BOOLEAN }
ReaderStates ==
    { ("sensor.temp" :> t) @@ ("sensor.hum" :> h)
      : t \in EntityStates("sensor.temp"), h \in EntityStates("sensor.hum") }
ReaderInit == InitOn(ReaderData, ReaderStates)
ReaderNext ==
    \/ \E k \in ConvertKinds, v \in ConvertValues, u \in ConvertUnits :
          ApplyConvert(k, v, u)
    \/ ApplyCollect
ReaderSpec == ReaderInit /\ [][ReaderNext]_vars

\* ------------------------------------------------------- the config flow
\* What a user submits to the three steps of the config flow, and to the
\* options flow of the entry it created.
UserInputs ==
    { (CONF_BOX_ID :> b) @@ tok
      : b \in {BoxId, PaddedBoxId, ShortId, NonHexId},
        tok \in {<< >>, (CONF_ACCESS_TOKEN :> Token), (CONF_ACCESS_TOKEN :> "  ")} }
SlotChoices == {"none", "both", "sensor_only", "entity_only", "bad_id"}
SensorInputs ==
    { SlotInput(3, c3) @@ SlotInput(4, c4) : c3 \in SlotChoices, c4 \in SlotChoices }
OptionsStepInputs ==
    { << >>, (CONF_UPDATE_INTERVAL :> 60) @@ (CONF_DEBUG_MODE :> TRUE) }
FlowOptionInputs ==
    { SlotInput(3, c3) @@ SlotInput(4, c4)
        @@ (CONF_UPDATE_INTERVAL :> 120) @@ (CONF_DEBUG_MODE :> TRUE)
      : c3 \in {"none", "both", "bad_id"}, c4 \in {"none", "both", "sensor_only"} }

flow_frame ==
    << entry_options, hass_states, session, open_sessions, status_vars,
       last_request_data, now, calls, last_cycle, started, option_updates,
       state_changes, shutdown, probe >>

\* OpenSenseMapConfigFlow.async_step_user with a submission: the box id is
\* checked; if it passes, the sensors form is shown.
AsyncStepUser(user_input) ==
    /\ flow.step = "user"
    /\ LET id == Strip(user_input[CONF_BOX_ID])
           token == Strip(DictGet(user_input, CONF_ACCESS_TOKEN, ""))
       IN  flow' =
             IF ~ValidateBoxId(id)
             THEN [flow EXCEPT !.errors = "invalid_box_id", !.input = user_input]
             ELSE [step |-> "sensors",
                   data |-> (IF token # "" THEN (CONF_ACCESS_TOKEN :> token) ELSE << >>)
                            @@ (CONF_BOX_ID :> id) @@ flow.data,
                   errors |-> "",
                   input |-> user_input]
    /\ UNCHANGED << entry_data, cached_vars, flow_frame >>

\* The loop of async_step_sensors over SENSOR_CONFIGS: complete pairs go
\* into _data as they are met.
RECURSIVE SensorsStepUpTo(_, _, _)
SensorsStepUpTo(user_input, data, i) ==
    IF i = 0 THEN [data |-> data, has_valid_pair |-> FALSE, incomplete |-> FALSE]
    ELSE LET r == SensorsStepUpTo(user_input, data, i - 1)
             sensor_id == Strip(DictGet(user_input, SENSOR_CONFIGS[i].sensor_id_key, ""))
             entity_id == DictGet(user_input, SENSOR_CONFIGS[i].entity_key, "")
         IN  IF sensor_id # "" /\ entity_id # ""
             THEN [r EXCEPT !.has_valid_pair = TRUE,
                            !.data = (SENSOR_CONFIGS[i].sensor_id_key :> sensor_id)
                                     @@ (SENSOR_CONFIGS[i].entity_key :> entity_id)
                                     @@ r.data]
             ELSE IF sensor_id # "" \/ entity_id # ""
             THEN [r EXCEPT !.incomplete = TRUE]
             ELSE r

\* OpenSenseMapConfigFlow.async_step_sensors with a submission.
AsyncStepSensors(user_input) ==
    /\ flow.step = "sensors"
    /\ LET r == SensorsStepUpTo(user_input, flow.data, Len(SENSOR_CONFIGS))
           errors == IF r.incomplete THEN "incomplete_sensor_pair"
                     ELSE IF ~r.has_valid_pair THEN "no_sensor_configured"
                     ELSE ""
       IN  flow' = [step |-> IF errors = "" THEN "options" ELSE "sensors",
                    data |-> r.data, errors |-> errors, input |-> user_input]
    /\ UNCHANGED << entry_data, cached_vars, flow_frame >>

\* OpenSenseMapConfigFlow.async_step_options with a submission: the entry
\* is created from _data, and the coordinator is built on it.
AsyncStepOptions(user_input) ==
    /\ flow.step = "options"
    /\ LET data == (CONF_UPDATE_INTERVAL :>
                      DictGet(user_input, CONF_UPDATE_INTERVAL, DEFAULT_UPDATE_INTERVAL))
                   @@ (CONF_DEBUG_MODE :> DictGet(user_input, CONF_DEBUG_MODE, FALSE))
                   @@ flow.data
       IN  /\ flow' = [step |-> "done", data |-> data, errors |-> "",
                       input |-> user_input]
           /\ entry_data' = data
           /\ box_id' = data[CONF_BOX_ID]
           /\ access_token' = DictGet(data, CONF_ACCESS_TOKEN, "")
           /\ update_interval' = ConfiguredInterval(entry_options, data)
    /\ UNCHANGED flow_frame

\* Before the flow's first step there is no entry and no coordinator.
FlowInit ==
    /\ entry_data = << >>
    /\ entry_options = << >>
    /\ hass_states \in InitialStates
    /\ box_id = ""
    /\ access_token = ""
    /\ update_interval = DEFAULT_UPDATE_INTERVAL
    /\ session = "none"
    /\ last_upload = None
    /\ last_error = None
    /\ upload_count = 0
    /\ last_request_data = None
    /\ now = 0
    /\ calls = [t \in Callers |-> IdleCall]
    /\ last_cycle = NoCycle
    /\ started = 0
    /\ option_updates = 0
    /\ state_changes = 0
    /\ open_sessions = 0
    /\ shutdown = "no"
    /\ flow = NoFlow
    /\ probe = NoProbe
FlowNext ==
    \/ \E u \in UserInputs : AsyncStepUser(u)
    \/ \E u \in SensorInputs : AsyncStepSensors(u)
    \/ \E u \in OptionsStepInputs : AsyncStepOptions(u)
    \/ \E u \in FlowOptionInputs : OptionsFlowInit(u)
FlowSpec == FlowInit /\ [][FlowNext]_vars

\* Debug mode switched on and off: an entry with one sensor, created with
\* debug mode on or off, and options updates that set it either way.
DebugInitialData ==
    { (CONF_BOX_ID :> BoxId)
        @@ (IF tok THEN (CONF_ACCESS_TOKEN :> Token) ELSE << >>)
        @@ PairOf(3)
        @@ (CONF_UPDATE_INTERVAL :> 60) @@ (CONF_DEBUG_MODE :> dbg)
      : tok \in BOOLEAN, dbg \in BOOLEAN }
DebugStates ==
    { ("sensor.temp" :> MkState("21.5", "°C")) @@ ("sensor.hum" :> MkState("0.45", "%")) }
DebugInputs ==
    { PairOf(3) @@ (CONF_UPDATE_INTERVAL :> 60) @@ (CONF_DEBUG_MODE :> dbg)
      : dbg \in BOOLEAN }
DebugInit == InitOn(DebugInitialData, DebugStates)
DebugNext ==
    \/ CycleNext
    \/ SetState("sensor.temp", MkState("abc", ""))
    \/ \E u \in DebugInputs : OptionsFlowInit(u)
DebugSpec == DebugInit /\ [][DebugNext]_vars

\* Under FairSpec time keeps passing and a due timeout fires: the event
\* loop runs the callback asyncio.timeout scheduled.  The entry's options
\* stay as they are.
FairSpec ==
    /\ Init /\ [][SensorNext]_vars
    /\ WF_vars(Tick) /\ \A t \in Callers : WF_vars(RequestTimeout(t))

\* ----------------------------------------------------------------- claims
\* The slots of SENSOR_CONFIGS with both a sensor id and an entity.
ActiveSlots ==
    {i \in 1..Len(SENSOR_CONFIGS) :
        /\ SensorId(entry_options, entry_data, i) # ""
        /\ EntityId(entry_options, entry_data, i) # ""}
UnavailableSlots ==
    {i \in ActiveSlots :
        LET st == StateOf(hass_states, EntityId(entry_options, entry_data, i))
        IN  ~st.exists \/ st.state = "unknown" \/ st.state = "unavailable"}
InFlight == {t \in Callers : calls[t].pc # "idle"}

\* C1: a cycle that starts while some active entry's source is absent,
\* "unknown" or "unavailable" ends at once as skipped: last_error is
\* "Sensors unavailable: " followed by exactly the unavailable entities
\* separated by ", ", nothing is collected, no request is issued, and
\* last_upload and upload_count keep their values.
C1_GateSkipsCycle ==
    [][ (started' = started + 1 /\ UnavailableSlots # {}) =>
          /\ last_cycle'.id = started' /\ last_cycle'.outcome = "skipped"
          /\ ~last_cycle'.collected /\ ~last_cycle'.requested
          /\ calls' = calls
          /\ last_upload' = last_upload /\ upload_count' = upload_count
          /\ last_error' # None
          /\ LET msg == last_error'[1]
                 k == Cardinality(UnavailableSlots)
             IN  /\ Len(msg) = 2 * k
                 /\ msg[1] = "Sensors unavailable: "
                 /\ {msg[2 * j] : j \in 1..k} =
                      {EntityId(entry_options, entry_data, i) : i \in UnavailableSlots}
                 /\ \A j \in 1..(k - 1) : msg[2 * j + 1] = ", "
      ]_vars
C1_Witness ==
    /\ last_cycle.outcome = "skipped"
    /\ Len(last_cycle.unavailable) = 2
    /\ last_cycle.id = 2

\* C2: after a cycle whose push succeeded, upload_count is one more than
\* when the cycle began, last_upload is the time the cycle ended and
\* last_error is None.
C2_SuccessAccounting ==
    last_cycle.outcome = "success" =>
        /\ upload_count = last_cycle.pre_count + 1
        /\ last_upload = Some(last_cycle.time)
        /\ last_error = None

\* C3: after a cycle that failed (push failure or exception), last_error is
\* the failure message or the exception's description, and last_upload and
\* upload_count are what they were when the cycle began.
C3_FailureAccounting ==
    last_cycle.outcome \in {"failed", "exception"} =>
        /\ last_error = Some(IF last_cycle.outcome = "failed"
                              THEN last_cycle.result.response[1]
                              ELSE last_cycle.net.err)
        /\ upload_count = last_cycle.pre_count
        /\ last_upload = last_cycle.pre_upload

\* C4: every finished cycle returned a status snapshot to its caller (no
\* exception left _async_update_data), and a cycle that did not succeed
\* recorded its failure in the last_error it returned.
C4_NeverRaises ==
    last_cycle.id # 0 =>
        /\ last_cycle.returns
        /\ last_cycle.data # None
        /\ last_cycle.outcome # "success" => last_cycle.data[1].last_error # None
C4_Witness ==
    /\ last_cycle.outcome = "exception"
    /\ last_cycle.requested
    /\ last_cycle.returns

\* C5: at most one cycle is in flight at any time.
C5_SingleFlight == Cardinality(InFlight) <= 1

\* C6: a cycle that is suspended in its request eventually finishes; the
\* request is never pending past HTTP_TIMEOUT seconds; a cycle finished by
\* the timeout is a failure with last_error "Request timeout", and its
\* caller is idle again, free to start the next cycle.
C6_TimeoutEndsCycle ==
    /\ \A t \in Callers : (calls[t].pc # "idle") ~> (calls[t].pc = "idle")
    /\ [](\A t \in InFlight : now <= calls[t].sent + HTTP_TIMEOUT)
    /\ [][ \A t \in InFlight :
             (now >= calls[t].sent + HTTP_TIMEOUT /\ calls'[t] # calls[t]) =>
                /\ calls'[t].pc = "idle"
                /\ last_cycle'.id = calls[t].id
                /\ last_cycle'.outcome = "failed"
                /\ last_error' = Some(<< "Request timeout" >>)
         ]_vars
C6_Witness ==
    /\ last_cycle.net.kind = "timeout"
    /\ last_cycle.time = last_cycle.sent + HTTP_TIMEOUT
    /\ calls[last_cycle.caller].pc = "post"

\* C7: a cycle that passed the gate and collected nothing made no request
\* and counts as a success: upload_count is one more than when it began,
\* last_upload is its time and last_error is None.
C7_EmptyPayloadSucceeds ==
    (last_cycle.collected /\ DOMAIN last_cycle.payload = {}) =>
        /\ last_cycle.outcome = "success"
        /\ ~last_cycle.requested
        /\ last_cycle.result = PushResult(TRUE, None)
        /\ upload_count = last_cycle.pre_count + 1
        /\ last_upload = Some(last_cycle.time)
        /\ last_error = None
C7_Witness ==
    /\ last_cycle.collected /\ DOMAIN last_cycle.payload = {}
    /\ last_cycle.outcome = "success"
    /\ last_cycle.pre_count = 1

\* C8: for a push that reached the network: success (with no message)
\* exactly for status 200 or 201; any other status s with body b gives the
\* failure "HTTP s: b"; a timeout gives "Request timeout"; a transport
\* failure gives its stringified error.
C8_PushResult ==
    (last_cycle.requested /\ last_cycle.net.kind # "exception") =>
        LET net == last_cycle.net
            res == last_cycle.result
        IN  /\ res.success <=> (net.kind = "status" /\ (net.status = 200 \/ net.status = 201))
            /\ res.success => res.response = None
            /\ (net.kind = "status" /\ ~res.success) =>
                  res.response = Some(<< "HTTP ", StatusStr(net.status), ": " >> \o net.body)
            /\ net.kind = "timeout" => res.response = Some(<< "Request timeout" >>)
            /\ net.kind = "client_error" => res.response = Some(net.err)
C8_Witness ==
    /\ last_cycle.requested
    /\ last_cycle.net.kind = "status" /\ last_cycle.net.status = 204
    /\ ~last_cycle.result.success

\* C9: every cycle runs on the configuration as it is when the cycle
\* starts: the polling period, the request's URL and Authorization header,
\* the entries uploaded and the debug snapshot are those of the entry's
\* current data and options.
C9_ConfigReadEachCycle ==
    [][ started' = started + 1 =>
          /\ update_interval' = ConfiguredInterval(entry_options, entry_data)
          /\ \A t \in Callers :
               (calls[t].pc = "idle" /\ calls'[t].pc = "post") =>
                  /\ calls'[t].url = API_URL(entry_data[CONF_BOX_ID])
                  /\ calls'[t].headers =
                       BuildHeaders(DictGet(entry_data, CONF_ACCESS_TOKEN, ""))
                  /\ DOMAIN calls'[t].payload \subseteq
                       {SensorId(entry_options, entry_data, i) : i \in ActiveSlots}
                  /\ DebugMode(entry_options, entry_data) =>
                       /\ last_request_data' # None
                       /\ last_request_data'[1].payload = calls'[t].payload
      ]_vars

\* C10: next_upload is last_upload plus the configured update_interval when
\* last_upload is set, and absent otherwise.
C10_NextUpload ==
    NextUpload(last_upload, update_interval) =
        IF last_upload # None
        THEN Some(last_upload[1] + ConfiguredInterval(entry_options, entry_data))
        ELSE None

\* What the status consumer can read of a request snapshot: whether the
\* text appears in its url, in a header value or in its payload.
ShowsText(snapshot, text) ==
    \/ \E i \in DOMAIN snapshot.url : snapshot.url[i] = text
    \/ \E k \in DOMAIN snapshot.headers :
         \E i \in DOMAIN snapshot.headers[k] : snapshot.headers[k][i] = text
    \/ \E k \in DOMAIN snapshot.payload :
         k = text \/ \E i \in DOMAIN snapshot.payload[k] : snapshot.payload[k][i] = text
Redacted(snapshot) ==
    /\ ~ShowsText(snapshot, Token)
    /\ "Authorization" \in DOMAIN snapshot.headers =>
          snapshot.headers["Authorization"] = << "***" >>

\* C11: a step taken while debug mode is off leaves last_request_data as it
\* is; a status snapshot, whether returned by a cycle or computed now, and
\* the sensor's attributes show last_request only while debug mode is on;
\* and every stored or shown request snapshot has "***" as its
\* Authorization value and the access token nowhere.
C11_DebugSnapshot ==
    /\ [][ ~DebugMode(entry_options, entry_data) =>
             last_request_data' = last_request_data ]_vars
    /\ [][ (last_cycle' # last_cycle /\ last_cycle'.data # None
              /\ last_cycle'.data[1].last_request # None) =>
             DebugMode(entry_options, entry_data) ]_vars
    /\ [] LET debug == DebugMode(entry_options, entry_data)
              data == GetStatusData(CurrentStatus, update_interval, box_id,
                                    debug, last_request_data)
              attrs == ExtraStateAttributes(CurrentStatus, update_interval,
                                            entry_data[CONF_BOX_ID], debug,
                                            last_request_data)
          IN  /\ data.last_request # None => debug
              /\ attrs.last_request # None => debug
              /\ last_request_data # None => Redacted(last_request_data[1])
              /\ data.last_request # None => Redacted(data.last_request[1])
              /\ attrs.last_request # None => Redacted(attrs.last_request[1])
              /\ (last_cycle.data # None /\ last_cycle.data[1].last_request # None) =>
                    Redacted(last_cycle.data[1].last_request[1])
C11_Witness ==
    /\ ~DebugMode(entry_options, entry_data)
    /\ last_request_data # None
    /\ "Authorization" \in DOMAIN last_request_data[1].headers
    /\ last_request_data[1].headers["Authorization"] = << "***" >>
    /\ last_cycle.id = 2
    /\ last_cycle.requested
    /\ last_cycle.data[1].last_request = None

SamePayload(a, b) ==
    DOMAIN a = DOMAIN b /\ \A k \in DOMAIN a : a[k] = b[k]

\* C12: while debug mode is on, every push attempt, whether it posts a
\* request or short-circuits on an empty payload, leaves in
\* last_request_data a snapshot whose payload is the payload of that
\* attempt.
C12_SnapshotEveryPush ==
    [][ (started' = started + 1 /\ DebugMode(entry_options, entry_data)) =>
          /\ \A t \in Callers :
               (calls[t].pc = "idle" /\ calls'[t].pc = "post") =>
                  /\ last_request_data' # None
                  /\ SamePayload(last_request_data'[1].payload, calls'[t].payload)
          /\ (last_cycle'.id = started' /\ last_cycle'.collected) =>
                  /\ last_request_data' # None
                  /\ SamePayload(last_request_data'[1].payload, last_cycle'.payload)
      ]_vars

\* A well-formed identifier: 24 hexadecimal digits.
WellFormedId(s) == TextOf(s).len = 24 /\ TextOf(s).hex
\* A well-formed sensor submission: every slot has both a sensor id and an
\* entity or neither, every sensor id given is well formed, and some slot
\* has both.
WellFormedPairs(user_input) ==
    LET sid(i) == Strip(DictGet(user_input, SENSOR_CONFIGS[i].sensor_id_key, ""))
        eid(i) == DictGet(user_input, SENSOR_CONFIGS[i].entity_key, "")
    IN  /\ \A i \in 1..Len(SENSOR_CONFIGS) :
             /\ (sid(i) = "") <=> (eid(i) = "")
             /\ sid(i) # "" => WellFormedId(sid(i))
        /\ \E i \in 1..Len(SENSOR_CONFIGS) : sid(i) # "" /\ eid(i) # ""

\* C13: the user step is passed only with a well-formed box id, the
\* sensors step and an options update only with a well-formed sensor
\* submission; so the entry a cycle would read has a well-formed box id
\* and a well-formed sensor id in every active slot.
C13_ValidationBlocks ==
    /\ [][ /\ (flow.step = "user" /\ flow'.step = "sensors") =>
                WellFormedId(Strip(flow'.input[CONF_BOX_ID]))
           /\ (flow.step = "sensors" /\ flow'.step = "options") =>
                WellFormedPairs(flow'.input)
           /\ \A u \in FlowOptionInputs :
                (option_updates' = option_updates + 1
                   /\ entry_options' = OptionsValidData(u)) => WellFormedPairs(u)
         ]_vars
    /\ [](flow.step = "done" =>
            /\ WellFormedId(entry_data[CONF_BOX_ID])
            /\ \A i \in ActiveSlots :
                  WellFormedId(SensorId(entry_options, entry_data, i)))

\* Two rationals are equal when their lowest terms are.
RECURSIVE Gcd(_, _)
Gcd(a, b) == IF b = 0 THEN a ELSE Gcd(b, a % b)
LowestTerms(a) ==
    LET g == Gcd(IF a.n < 0 THEN 0 - a.n ELSE a.n, a.d)
    IN  [n |-> a.n \div g, d |-> a.d \div g]
NumEq(a, b) == LowestTerms(a) = LowestTerms(b)

\* C14: the keys of what _collect_sensor_data returns are exactly the sensor
\* ids of the active slots whose entity has a state that is not "unknown"
\* or "unavailable" and is a number; the other slots are left out and no
\* error is set.
C14_CollectKeys ==
    probe.op = "collect" =>
        /\ DOMAIN probe.out =
             { SensorId(entry_options, entry_data, i) :
                 i \in { j \in ActiveSlots \ UnavailableSlots :
                           StateOf(hass_states,
                                   EntityId(entry_options, entry_data, j)).state
                             \in FloatLiterals } }
        /\ last_error = None
C14_Witness ==
    /\ probe.op = "collect"
    /\ Cardinality(ActiveSlots) = 2
    /\ hass_states["sensor.temp"].state = "abc"
    /\ DOMAIN probe.out = {HumSensorId}

\* C15: for humidity, a value v with 0 < v <= 1 comes out as 100 v and any
\* other value, negative ones included, comes out unchanged.
C15_HumidityScaling ==
    (probe.op = "convert" /\ probe.measurement_type = MEASUREMENT_HUMIDITY) =>
        IF probe.value.n > 0 /\ NumLeq(probe.value, Num(1, 1))
        THEN NumEq(probe.out, Num(probe.value.n * 100, probe.value.d))
        ELSE NumEq(probe.out, probe.value)

\* The canonical unit of each measurement type.
CanonicalUnit(measurement_type) ==
    CASE measurement_type = MEASUREMENT_TEMPERATURE -> "°C"
      [] measurement_type = MEASUREMENT_PRESSURE -> "Pa"
      [] measurement_type = MEASUREMENT_HUMIDITY -> "%"
      [] OTHER -> ""

\* C16: converting a converted value again, with the canonical unit of its
\* measurement type, changes nothing.
C16_ConvertIdempotent ==
    probe.op = "convert" =>
        NumEq(ConvertValue(probe.measurement_type, probe.out,
                           CanonicalUnit(probe.measurement_type)),
              probe.out)

\* C17: temperature in "°F" or "F" comes out as (v - 32) * 5 / 9 and in any
\* other unit unchanged; pressure in "hPa", "mbar" or without unit comes
\* out as 100 v, in "inHg" as 3386.39 v, in "psi" as 6894.76 v and in any
\* other unit unchanged; particulate matter comes out unchanged; so 32 °F
\* is sent as "0.00", 212 °F as "100.00" and 1013 hPa as "101300.00".
C17_UnitTable ==
    probe.op = "convert" =>
        LET v == probe.value
            u == probe.unit
            k == probe.measurement_type
        IN  /\ k = MEASUREMENT_TEMPERATURE =>
                  IF u = "°F" \/ u = "F"
                  THEN NumEq(probe.out, Num((v.n - 32 * v.d) * 5, 9 * v.d))
                  ELSE probe.out = v
            /\ k = MEASUREMENT_PRESSURE =>
                  CASE u = "hPa" \/ u = "mbar" \/ u = "" ->
                          NumEq(probe.out, Num(v.n * 100, v.d))
                    [] u = "inHg" -> NumEq(probe.out, Num(v.n * 338639, v.d * 100))
                    [] u = "psi" -> NumEq(probe.out, Num(v.n * 689476, v.d * 100))
                    [] OTHER -> probe.out = v
            /\ k = MEASUREMENT_PM => probe.out = v
            /\ (k = MEASUREMENT_TEMPERATURE /\ u = "°F" /\ v = Num(32, 1)) =>
                  probe.text = << "0", ".", "0", "0" >>
            /\ (k = MEASUREMENT_TEMPERATURE /\ u = "°F" /\ v = Num(212, 1)) =>
                  probe.text = << "1", "0", "0", ".", "0", "0" >>
            /\ (k = MEASUREMENT_PRESSURE /\ u = "hPa" /\ v = Num(1013, 1)) =>
                  probe.text = << "1", "0", "1", "3", "0", "0", ".", "0", "0" >>
C17_Witness ==
    /\ probe.op = "convert"
    /\ probe.measurement_type = MEASUREMENT_TEMPERATURE
    /\ probe.unit = "F" /\ probe.value = Num(212, 1)
    /\ probe.text = << "1", "0", "0", ".", "0", "0" >>

\* C18: the sensor's state is "error" when last_error is set, else "ok"
\* when last_upload is set, else "pending"; and the sensor is available.
C18_StatusState ==
    /\ NativeValue(CurrentStatus) =
         (IF last_error # None THEN "error"
          ELSE IF last_upload # None THEN "ok"
          ELSE "pending")
    /\ Available(CurrentStatus)

\* C19: never more than one session is open, and none is open once
\* async_shutdown has completed.
C19_SessionReleased ==
    /\ open_sessions <= 1
    /\ shutdown = "done" => open_sessions = 0

\* C20: a request is issued in the very step in which its cycle started
\* and passed the gate, with every active entity available; its payload is
\* not empty and its keys are sensor ids of active slots; and whenever the
\* collector runs, no active entity is unavailable.
C20_RequestAfterGate ==
    [][ /\ \A t \in Callers :
             (calls[t].pc = "idle" /\ calls'[t].pc = "post") =>
                /\ started' = started + 1
                /\ calls'[t].id = started'
                /\ UnavailableSlots = {}
                /\ DOMAIN calls'[t].payload # {}
                /\ DOMAIN calls'[t].payload \subseteq
                     {SensorId(entry_options, entry_data, i) : i \in ActiveSlots}
        /\ (last_cycle'.id = started' /\ started' = started + 1
              /\ last_cycle'.collected) => UnavailableSlots = {}
      ]_vars
C20_Witness ==
    /\ last_cycle.outcome = "skipped"
    /\ \E t \in Callers :
         /\ calls[t].pc = "post" /\ calls[t].id = 2
         /\ DOMAIN calls[t].payload = {TempSensorId}

\* C21: upload_count starts at 0 with last_upload unset; no step lowers it,
\* and the only step that changes it is the end of a successful cycle,
\* which adds exactly 1; upload_count > 0 exactly when last_upload is set;
\* and last_upload, once set, stays set and never moves to an earlier time.
C21_CounterMonotone ==
    /\ upload_count = 0 /\ last_upload = None
    /\ [](upload_count > 0 <=> last_upload # None)
    /\ [][ /\ upload_count' >= upload_count
           /\ upload_count' # upload_count =>
                 /\ upload_count' = upload_count + 1
                 /\ last_cycle' # last_cycle
                 /\ last_cycle'.outcome = "success"
           /\ last_upload # None =>
                 /\ last_upload' # None
                 /\ last_upload'[1] >= last_upload[1]
         ]_vars
C21_Witness ==
    /\ last_cycle.id = 2
    /\ last_cycle.outcome = "failed"
    /\ upload_count = 1
    /\ last_upload # None /\ last_upload[1] < now

\* C22: after a cycle that ended skipped, failed or in an exception (also
\* one whose description is the empty string) the status sensor's state is
\* "error"; the state leaves "error" only at the end of a successful
\* cycle, and is then "ok".
C22_ErrorUntilSuccess ==
    /\ [](last_cycle.outcome \in {"skipped", "failed", "exception"} =>
            NativeValue(CurrentStatus) = "error")
    /\ [][ (NativeValue(CurrentStatus) = "error"
            /\ NativeValue(CurrentStatus)' # "error") =>
              /\ last_cycle' # last_cycle
              /\ last_cycle'.outcome = "success"
              /\ NativeValue(CurrentStatus)' = "ok"
         ]_vars

\* The slots whose complete pair the accepted options update submitted
\* (the update stores exactly its complete pairs), and what the cycle
\* numbered n sent or was about to send.
SubmittedSlots ==
    {i \in 1..Len(SENSOR_CONFIGS) :
        /\ SENSOR_CONFIGS[i].sensor_id_key \in DOMAIN entry_options
        /\ SENSOR_CONFIGS[i].entity_key \in DOMAIN entry_options}
CyclePayload(n) ==
    IF last_cycle.id = n THEN last_cycle.payload
    ELSE (CHOOSE c \in {calls[t] : t \in Callers} : c.id = n).payload

\* C23: a cycle that starts after an accepted options update checks and
\* uploads exactly the pairs submitted in that update: it is skipped
\* exactly when the source of a submitted pair is unavailable, naming
\* those sources only, and otherwise its payload has exactly the sensor
\* ids of the submitted pairs whose source reports a number; a pair of the
\* original configuration that the update left out plays no part.
C23_UpdateReplacesMapping ==
    [][ (started' = started + 1 /\ option_updates > 0) =>
          LET down == {i \in SubmittedSlots :
                         IsUnavailable(StateOf(hass_states,
                             entry_options[SENSOR_CONFIGS[i].entity_key]))}
              numeric == {i \in SubmittedSlots :
                            StateOf(hass_states,
                                entry_options[SENSOR_CONFIGS[i].entity_key]).state
                              \in FloatLiterals}
              skipped == last_cycle'.id = started' /\ last_cycle'.outcome = "skipped"
          IN  /\ skipped <=> down # {}
              /\ skipped =>
                    {last_cycle'.unavailable[k] :
                        k \in 1..Len(last_cycle'.unavailable)}
                      = {entry_options[SENSOR_CONFIGS[i].entity_key] : i \in down}
              /\ (~skipped /\ last_cycle'.outcome # "exception") =>
                    DOMAIN CyclePayload(started)'
                      = {entry_options[SENSOR_CONFIGS[i].sensor_id_key] : i \in numeric}
      ]_vars

====
